---- MODULE Spec2Model ----
(***************************************************************************)
(* Job Scheduler v2 (script/job_scheduler.py): scheduler processes sharing *)
(* one SQLite job store, each running recovery and then its workers; every *)
(* worker loops claim -> run -> record.  Each store transaction starts     *)
(* with BEGIN IMMEDIATE, modelled by the write lock `lock`.                *)
(***************************************************************************)
EXTENDS Integers, FiniteSets, Sequences, TLC

\* ------------------------------------------------------------------ bounds
NumJobs == 2
NumWorkers == 2
NumSchedulers == 2
MaxTicks == 2
MaxPriority == 1
MaxEstimate == 1
MaxRuns == 3
NumUserColumns == 2

\* ------------------------------------------------------- program constants
\* JOBSCHEDULER_ESTIMATE_TIME is in hours: "ESTIMATE_TIME * 3600 / ?"
SecondsPerHour == 3600

\* The clock advances in steps of half an hour.
Quantum == SecondsPerHour \div 2

Jobs == 1..NumJobs
Workers == 1..NumWorkers
Schedulers == 1..NumSchedulers

\* Job ids are the integers 1..NumJobs; their order stands for the text order
\* of JOBSCHEDULER_JOB_ID.  None is Python's None / "no row".
None == 0
\* SQL NULL of a numeric or timestamp column.
Null == -1
\* A timestamp column holds NULL or the text of datetime('now'); the model
\* keeps that it is set, not the instant.
Stamp == 1
\* SQL NULL / Python None of an error message.
NoMessage == <<>>
MsgTimeout == <<"Timeout: exceeded maximum runtime">>
MsgInterrupted == <<"Interrupted by shutdown signal">>
MsgExited(code) == <<"Process exited with code", code>>
MsgException == <<"Exception: ">>

\* Exit statuses a child can end with by itself: success, failure, and death
\* by signal 2, which subprocess reports as returncode -2.
ExitCodes == {0, 1, -2}
\* return codes run_job synthesizes
RcRetry == -2
RcException == -1

VARIABLES
    jobs,              \* the jobs table: job id -> row
    job_dependencies,  \* the job_dependencies table: set of <<job_id, depends_on>>
    lock,              \* holder of the store's write lock: 0, a worker, or -s for scheduler s
    now,               \* time.time()
    config,            \* the JobScheduler kwargs (max_runtime, margin_time, ...)
    sched_of,          \* worker -> the scheduler process that starts it (0: never started)
    sched,             \* per scheduler process: position in run_scheduling
    worker,            \* per worker: position and locals of run_scheduling_worker
    child,             \* per worker: its subprocess: <<"none">>, <<"running">>, <<"killed">>, <<"exited", code>>
    shutdown_event,    \* per worker process: the shutdown flag
    claims_since_pending, \* history: claims of a job committed since it last became pending
    terminal_writes,   \* history: runs that wrote done/error for a job
    recorded,          \* history: what a worker committed for its current claim
    command,           \* build_command: self.command.split()
    named_args,        \* build_command: self.named_args
    job,               \* build_command: the job dict, column index -> cell
    cmd                \* build_command: the argv it returned (<<>>: not called yet)

vars == <<jobs, job_dependencies, lock, now, config, sched_of, sched, worker,
          child, shutdown_event, claims_since_pending, terminal_writes, recorded,
          command, named_args, job, cmd>>

history == <<claims_since_pending, terminal_writes, recorded>>

\* Scheduler s starts the workers WorkersOf(s): range(self.parallel), with
\* worker_id 0 .. parallel - 1.
WorkersOf(s) == {w \in Workers : sched_of[w] = s}
parallel(s) == Cardinality(WorkersOf(s))
WorkerId(w) == Cardinality({v \in WorkersOf(sched_of[w]) : v < w})

\* ------------------------------------------------------------ initial state
\* A row as import_csv leaves it: status 'pending', the lifecycle columns
\* NULL, no dependency listed in DEPENDS_ON, a text in every user column.
NewRow(p, e) ==
    [status |-> "pending", priority |-> p, estimate_time |-> e,
     started_at |-> Null, finished_at |-> Null, elapsed_time |-> Null,
     error_message |-> NoMessage,
     depends_on |-> {}, user |-> [i \in 1..NumUserColumns |-> <<"x">>]]

\* job_dependencies as import_csv fills it: no pair, or one pair, a dangling
\* depends_on (NumJobs + 1 names no job) and a self-dependency included.
DepChoices ==
    {{}} \cup {{<<j, d>>} : j \in Jobs, d \in 1..(NumJobs + 1)}

\* Locals of run_scheduling_worker (and of the run_job / mark_job_done calls
\* it makes) before the worker process exists.
NewWorker ==
    [pc |-> "idle", start_time |-> Null, available_time |-> 0,
     row |-> None, job |-> None, run_start |-> Null,
     return_code |-> <<>>, elapsed_time |-> Null, error_message |-> NoMessage,
     m_status |-> "none", m_error |-> NoMessage,
     jobs_completed |-> 0, jobs_failed |-> 0]

\* The prepared store, the kwargs, and which scheduler starts which worker.
InitStore(priorities, estimates, deps, configs, layouts) ==
    /\ job_dependencies \in deps
    /\ jobs \in {[j \in Jobs |->
                     [NewRow(p[j], e[j]) EXCEPT
                         !.depends_on = {q[2] : q \in {r \in job_dependencies : r[1] = j}}]] :
                    p \in [Jobs -> priorities], e \in [Jobs -> estimates]}
    /\ config \in configs
    /\ sched_of \in layouts
    /\ lock = 0
    /\ now = 0
    /\ sched = [s \in Schedulers |->
                  IF \E w \in Workers : sched_of[w] = s THEN "start" ELSE "absent"]
    /\ worker = [w \in Workers |-> NewWorker]
    /\ child = [w \in Workers |-> <<"none">>]
    /\ shutdown_event = [w \in Workers |-> FALSE]
    /\ claims_since_pending = [j \in Jobs |-> 0]
    /\ terminal_writes = [j \in Jobs |-> 0]
    /\ recorded = [w \in Workers |-> <<>>]

\* The same, with no build_command call under study.
InitWith(priorities, estimates, deps, configs, layouts) ==
    /\ InitStore(priorities, estimates, deps, configs, layouts)
    /\ command = <<>>
    /\ named_args = FALSE
    /\ job = <<>>
    /\ cmd = <<>>

\* --------------------------------------------------------- the store's lock
\* (A deferred BEGIN, which takes no lock before the SELECT.)
BeginDeferred(o) == TRUE
\* BEGIN IMMEDIATE succeeds when no other connection holds the write lock.
CanBegin(o) == lock = 0
\* The lock stayed with another connection for the whole busy_timeout:
\* sqlite3.OperationalError ("database is locked").
Busy(o) == lock # 0 /\ lock # o
\* commit / rollback / close give the lock back.
Release(o) == IF lock = o THEN 0 ELSE lock

\* -------------------------------------------------------------- small helpers
Set(w, fields) == [worker EXCEPT ![w] = fields]
Others == <<job_dependencies, config, sched_of, command, named_args, job, cmd>>
Min2(a, b) == IF a < b THEN a ELSE b
\* Locals that are not read again before they are assigned again are put
\* back to their initial values: row when get_pending_job returns,
\* available_time and run_start when run_job returns, the mark_job_done
\* arguments when it returns, the rest when the loop head is evaluated; a
\* worker that has returned keeps its counters.
Returned(w) ==
    [NewWorker EXCEPT !.pc = "exited",
                      !.start_time = worker[w].start_time,
                      !.jobs_completed = worker[w].jobs_completed,
                      !.jobs_failed = worker[w].jobs_failed]

\* ------------------------------------------------ recover_stuck_jobs (lines 135-172)
\* conn.execute("BEGIN IMMEDIATE") of recover_stuck_jobs, called first by
\* run_scheduling.
RecoverBegin(s) ==
    /\ sched[s] = "start"
    /\ CanBegin(0 - s)
    /\ lock' = 0 - s
    /\ sched' = [sched EXCEPT ![s] = "recover"]
    /\ UNCHANGED <<jobs, now, worker, child, shutdown_event, history, Others>>

\* BEGIN IMMEDIATE raises OperationalError: logged, nothing is reset, and
\* run_scheduling goes on to start its workers.
RecoverBusy(s) ==
    /\ sched[s] = "start"
    /\ Busy(0 - s)
    /\ sched' = [sched EXCEPT ![s] = "spawn"]
    /\ UNCHANGED <<jobs, lock, now, worker, child, shutdown_event, history, Others>>

\* (No reset at all.)
NoReset(rows) == rows

\* (A reset that also puts failed rows back in flight.)
ResetAndRetry(rows) ==
    [j \in Jobs |->
        IF rows[j].status = "running"
        THEN [rows[j] EXCEPT !.status = "pending", !.started_at = Null]
        ELSE IF rows[j].status = "error"
        THEN [rows[j] EXCEPT !.status = "running"]
        ELSE rows[j]]

\* (A reset of the status alone, started_at kept.)
ResetStatusOnly(rows) ==
    [j \in Jobs |->
        IF rows[j].status = "running"
        THEN [rows[j] EXCEPT !.status = "pending"]
        ELSE rows[j]]

\* UPDATE jobs SET status = 'pending', started_at = NULL WHERE status = 'running'
ResetRunning(rows) ==
    [j \in Jobs |->
        IF rows[j].status = "running"
        THEN [rows[j] EXCEPT !.status = "pending", !.started_at = Null]
        ELSE rows[j]]

\* SELECT COUNT(*) ... 'running'; if stuck_count > 0: UPDATE and commit;
\* finally conn.close().
RecoverCommit(s) ==
    /\ sched[s] = "recover"
    /\ jobs' = ResetRunning(jobs)
    /\ lock' = Release(0 - s)
    /\ sched' = [sched EXCEPT ![s] = "spawn"]
    /\ claims_since_pending' =
          [j \in Jobs |-> IF jobs[j].status = "running" THEN 0
                          ELSE claims_since_pending[j]]
    /\ UNCHANGED <<now, worker, child, shutdown_event, terminal_writes,
                   recorded, Others>>

\* ---------------------------------------------------- run_scheduling (lines 364-413)
\* (Workers started without waiting for recover_stuck_jobs to return.)
SpawnWithoutRecovery(s) ==
    /\ sched[s] \in {"start", "spawn"}
    /\ sched' = [sched EXCEPT ![s] = "join"]
    /\ worker' = [w \in Workers |->
                    IF sched_of[w] = s THEN [worker[w] EXCEPT !.pc = "spawned"]
                    ELSE worker[w]]
    /\ UNCHANGED <<jobs, lock, now, child, shutdown_event, history, Others>>

\* parallel > 1: Process(target=run_scheduling_worker, args=(i,)).start() for
\* every i; parallel = 1: the worker loop is called in the scheduler process.
Spawn(s) ==
    /\ sched[s] = "spawn"
    /\ sched' = [sched EXCEPT ![s] = "join"]
    /\ worker' = [w \in Workers |->
                    IF sched_of[w] = s THEN [worker[w] EXCEPT !.pc = "spawned"]
                    ELSE worker[w]]
    /\ UNCHANGED <<jobs, lock, now, child, shutdown_event, history, Others>>

\* (A scheduler that waits for one worker only.)
JoinFirst(s) ==
    /\ sched[s] = "join"
    /\ \E w \in WorkersOf(s) : worker[w].pc \in {"exited", "dead"}
    /\ sched' = [sched EXCEPT ![s] = "finished"]
    /\ UNCHANGED <<jobs, lock, now, worker, child, shutdown_event, history, Others>>

\* p.join() of every worker has returned (the worker loop has returned);
\* the final summary is logged.
Join(s) ==
    /\ sched[s] = "join"
    /\ \A w \in WorkersOf(s) : worker[w].pc \in {"exited", "dead"}
    /\ sched' = [sched EXCEPT ![s] = "finished"]
    /\ UNCHANGED <<jobs, lock, now, worker, child, shutdown_event, history, Others>>

\* ---------------------------------------------- run_scheduling_worker (lines 323-362)
\* self.start_time = time.time()
WorkerStart(w) ==
    /\ worker[w].pc = "spawned"
    /\ worker' = Set(w, [worker[w] EXCEPT !.pc = "loop", !.start_time = now])
    /\ UNCHANGED <<jobs, lock, now, sched, child, shutdown_event, history, Others>>

\* available_time = self.max_runtime - elapsed - self.margin_time
Available(w) == config.max_runtime - (now - worker[w].start_time) - config.margin_time

\* (A loop head with no budget checks.)
ContinueUnlessShutdown(w) == ~shutdown_event[w]

\* The loop head, lines 327-338: the loop goes on when the shutdown flag is
\* not set, elapsed < max_runtime and available_time > 0.
Continue(w) ==
    /\ ~shutdown_event[w]
    /\ ~(now - worker[w].start_time >= config.max_runtime)
    /\ ~(Available(w) <= 0)

\* The while condition is false or one of the two breaks is taken.
LoopExit(w) ==
    /\ worker[w].pc = "loop"
    /\ ~Continue(w)
    /\ worker' = Set(w, Returned(w))
    /\ recorded' = [recorded EXCEPT ![w] = <<>>]
    /\ UNCHANGED <<jobs, lock, now, sched, child, shutdown_event,
                   claims_since_pending, terminal_writes, Others>>

\* ------------------------------------------------- get_pending_job (lines 73-133)
\* The loop head passed; get_pending_job(available_time):
\* conn.execute("BEGIN IMMEDIATE") gets the write lock.
ClaimBegin(w) ==
    /\ worker[w].pc = "loop"
    /\ Continue(w)
    /\ CanBegin(w)
    /\ lock' = w
    /\ worker' = Set(w, [worker[w] EXCEPT !.pc = "claim_select",
                                          !.available_time = Available(w),
                                          !.return_code = <<>>,
                                          !.elapsed_time = Null,
                                          !.error_message = NoMessage])
    /\ UNCHANGED <<jobs, now, sched, child, shutdown_event, history, Others>>

\* The loop head passed; BEGIN IMMEDIATE raises OperationalError: rollback,
\* return None, and the worker loop breaks on job is None.
ClaimBusy(w) ==
    /\ worker[w].pc = "loop"
    /\ Continue(w)
    /\ Busy(w)
    /\ worker' = Set(w, Returned(w))
    /\ recorded' = [recorded EXCEPT ![w] = <<>>]
    /\ UNCHANGED <<jobs, lock, now, sched, child, shutdown_event,
                   claims_since_pending, terminal_writes, Others>>

\* (The WHERE clause without the deadline term.)
SelectablePending(j, available_time) == jobs[j].status = "pending"

\* The WHERE clause of the SELECT: the deadline term is there only when
\* smart scheduling is on and available_time > 0.  With speed_factor > 0,
\* estimate * 3600 / speed_factor <= available_time is
\* estimate * 3600 <= available_time * speed_factor.
Selectable(j, available_time) ==
    /\ jobs[j].status = "pending"
    /\ (config.smart_scheduling /\ available_time > 0) =>
          jobs[j].estimate_time * SecondsPerHour
              <= available_time * config.speed_factor

\* (ORDER BY JOBSCHEDULER_JOB_ID alone.)
OrderedByIdOnly(a, b) == a < b
\* ORDER BY JOBSCHEDULER_PRIORITY DESC, JOBSCHEDULER_JOB_ID
OrderedBefore(a, b) ==
    \/ jobs[a].priority > jobs[b].priority
    \/ jobs[a].priority = jobs[b].priority /\ a < b

\* ... LIMIT 1; cursor.fetchone()
SelectRow(available_time) ==
    LET S == {j \in Jobs : Selectable(j, available_time)}
    IN  IF S = {} THEN None
        ELSE CHOOSE j \in S : \A k \in S \ {j} : OrderedBefore(j, k)

\* (A worker that goes back to the loop head when no row was found.)
ClaimSelectPolling(w) ==
    /\ worker[w].pc = "claim_select"
    /\ LET r == SelectRow(worker[w].available_time)
       IN  worker' = Set(w, [worker[w] EXCEPT
                                !.pc = IF r = None THEN "loop" ELSE "claim_update",
                                !.row = r])
    /\ lock' = IF SelectRow(worker[w].available_time) = None THEN Release(w) ELSE lock
    /\ UNCHANGED <<jobs, now, sched, child, shutdown_event, history, Others>>

\* The SELECT and fetchone(); row is None: rollback, return None, and the
\* worker loop breaks.
ClaimSelect(w) ==
    /\ worker[w].pc = "claim_select"
    /\ LET r == SelectRow(worker[w].available_time)
       IN  IF r = None
           THEN /\ worker' = Set(w, Returned(w))
                /\ lock' = Release(w)
                /\ recorded' = [recorded EXCEPT ![w] = <<>>]
           ELSE /\ worker' = Set(w, [worker[w] EXCEPT !.pc = "claim_update",
                                                      !.row = r])
                /\ lock' = lock
                /\ recorded' = recorded
    /\ UNCHANGED <<jobs, now, sched, child, shutdown_event,
                   claims_since_pending, terminal_writes, Others>>

\* (A claim that sets the status alone.)
MarkRunningOnly(rows, job_id) == [rows EXCEPT ![job_id].status = "running"]

\* (A claim that stamps started_at and leaves the status.)
MarkStartedOnly(rows, job_id) == [rows EXCEPT ![job_id].started_at = Stamp]

\* UPDATE jobs SET status = 'running', started_at = datetime('now')
\* WHERE job_id = ?
MarkRunning(rows, job_id) ==
    [rows EXCEPT ![job_id].status = "running", ![job_id].started_at = Stamp]

\* The UPDATE, conn.commit(), return job.
ClaimCommit(w) ==
    /\ worker[w].pc = "claim_update"
    /\ jobs' = MarkRunning(jobs, worker[w].row)
    /\ lock' = Release(w)
    /\ worker' = Set(w, [worker[w] EXCEPT !.pc = "run_start",
                                          !.job = worker[w].row,
                                          !.row = None])
    /\ claims_since_pending' =
          [claims_since_pending EXCEPT ![worker[w].row] = Min2(@ + 1, 2)]
    /\ recorded' = [recorded EXCEPT ![w] = <<>>]
    /\ UNCHANGED <<now, sched, child, shutdown_event, terminal_writes, Others>>

\* (An except branch that returns None without the rollback taking the
\* UPDATE back.)
ClaimFailsKeepingUpdate(w) ==
    /\ worker[w].pc = "claim_update"
    /\ jobs' = MarkRunning(jobs, worker[w].row)
    /\ lock' = Release(w)
    /\ worker' = Set(w, Returned(w))
    /\ recorded' = [recorded EXCEPT ![w] = <<>>]
    /\ UNCHANGED <<now, sched, child, shutdown_event,
                   claims_since_pending, terminal_writes, Others>>

\* The UPDATE or conn.commit() raises sqlite3.OperationalError: the except
\* branch logs, conn.rollback() undoes what the transaction did, the call
\* returns None, and the worker loop breaks on job is None.
ClaimRollback(w) ==
    /\ worker[w].pc = "claim_update"
    /\ jobs' = jobs
    /\ lock' = Release(w)
    /\ worker' = Set(w, Returned(w))
    /\ recorded' = [recorded EXCEPT ![w] = <<>>]
    /\ UNCHANGED <<now, sched, child, shutdown_event,
                   claims_since_pending, terminal_writes, Others>>

\* --------------------------------------------------------- run_job (lines 230-321)
\* start_time = time.time(); subprocess.Popen(...) succeeds.
RunStart(w) ==
    /\ worker[w].pc = "run_start"
    /\ child' = [child EXCEPT ![w] = <<"running">>]
    /\ worker' = Set(w, [worker[w] EXCEPT !.pc = "poll", !.run_start = now,
                                          !.return_code = <<>>,
                                          !.elapsed_time = Null,
                                          !.error_message = NoMessage])
    /\ UNCHANGED <<jobs, lock, now, sched, shutdown_event, history, Others>>

\* Popen raises: except Exception: return -1, elapsed, "Exception: ...".
RunSpawnException(w) ==
    /\ worker[w].pc = "run_start"
    /\ worker' = Set(w, [worker[w] EXCEPT !.pc = "record",
                                          !.available_time = 0,
                                          !.return_code = <<RcException>>,
                                          !.elapsed_time = 0,
                                          !.error_message = MsgException])
    /\ UNCHANGED <<jobs, lock, now, sched, child, shutdown_event, history, Others>>

\* (A deadline that does not add max_time to start_time.)
DeadlineAtStart(w) == now >= worker[w].run_start

\* time.time() >= end_time, where end_time = start_time + max_time and the
\* worker passes max_time = available_time.
DeadlineReached(w) == now >= worker[w].run_start + worker[w].available_time

\* process.terminate(); process.wait(timeout=5); process.kill(): a child that
\* is still running is ended; one that has exited keeps its status.
Terminate(c) == IF c = <<"running">> THEN <<"killed">> ELSE c

\* One evaluation of the loop of lines 279-291 that does not go to sleep:
\* either the loop condition is false (the child has exited or the flag is
\* set), or the deadline has passed and the child is terminated.
Poll(w) ==
    /\ worker[w].pc = "poll"
    /\ IF child[w] = <<"running">> /\ ~shutdown_event[w]
       THEN /\ DeadlineReached(w)
            /\ child' = [child EXCEPT ![w] = Terminate(@)]
            /\ worker' = Set(w, [worker[w] EXCEPT !.pc = "after_loop",
                                    !.return_code = <<RcRetry>>,
                                    !.error_message = MsgTimeout])
       ELSE /\ child' = child
            /\ worker' = Set(w, [worker[w] EXCEPT !.pc = "after_loop"])
    /\ UNCHANGED <<jobs, lock, now, sched, shutdown_event, history, Others>>

\* process.returncode of a child that has ended.
ReturnCodeOf(c) == IF Len(c) = 2 THEN c[2] ELSE 0 - 15

\* Lines 293-315: with no return code yet, a set flag gives -2 /
\* "Interrupted by shutdown signal" and otherwise the child's own status is
\* taken; then elapsed_time, and the default message of a non-zero code.
AfterLoop(w) ==
    /\ worker[w].pc = "after_loop"
    /\ LET interrupted == worker[w].return_code = <<>> /\ shutdown_event[w]
           rc == IF worker[w].return_code # <<>> THEN worker[w].return_code[1]
                 ELSE IF shutdown_event[w] THEN RcRetry
                 ELSE ReturnCodeOf(child[w])
           msg == IF worker[w].return_code # <<>> THEN worker[w].error_message
                  ELSE IF shutdown_event[w] THEN MsgInterrupted
                  ELSE IF rc # 0 THEN MsgExited(rc)
                  ELSE NoMessage
       IN  /\ child' = [child EXCEPT ![w] = IF interrupted THEN Terminate(@) ELSE @]
           /\ worker' = Set(w, [worker[w] EXCEPT !.pc = "record",
                                    !.return_code = <<rc>>,
                                    !.elapsed_time = now - worker[w].run_start,
                                    !.error_message = msg,
                                    !.available_time = 0,
                                    !.run_start = Null])
    /\ UNCHANGED <<jobs, lock, now, sched, shutdown_event, history, Others>>

\* ------------------------------------- recording the outcome (lines 352-362)
\* (A worker with no re-queue branch: every non-zero code is a failure.)
StatusForNoRetry(rc) == IF rc = 0 THEN "done" ELSE "error"
\* The status the worker passes to mark_job_done for a return code.
StatusFor(rc) ==
    IF rc = 0 THEN "done"
    ELSE IF rc = RcRetry THEN "pending"
    ELSE "error"

\* The error_message argument: mark_job_done(job_id, 'done', elapsed_time)
\* passes none.
MessageFor(rc, msg) == IF rc = 0 THEN NoMessage ELSE msg

\* The process object and its exit status are not read after run_job has
\* returned.
Forget(w) == [child EXCEPT ![w] = <<"none">>]

\* Line 353 with the flag set: no mark_job_done call is made, and the loop
\* head is evaluated next.
RecordSkip(w) ==
    /\ worker[w].pc = "record"
    /\ shutdown_event[w]
    /\ worker' = Set(w, [worker[w] EXCEPT !.pc = "loop"])
    /\ child' = Forget(w)
    /\ UNCHANGED <<jobs, lock, now, sched, shutdown_event, history, Others>>

\* self.jobs_completed += 1 after a 'done' call, self.jobs_failed += 1 after
\* an 'error' call, whatever mark_job_done did.
Counted(w, status) ==
    [worker[w] EXCEPT
        !.pc = "loop", !.m_status = "none", !.m_error = NoMessage,
        !.jobs_completed = IF status = "done" THEN @ + 1 ELSE @,
        !.jobs_failed = IF status = "error" THEN @ + 1 ELSE @]

\* --------------------------------------------------- mark_job_done (lines 174-197)
\* Line 353 with the flag not set: mark_job_done(job_id, status, elapsed_time,
\* error_message) is called and its BEGIN IMMEDIATE gets the write lock.
MarkBegin(w) ==
    /\ worker[w].pc = "record"
    /\ ~shutdown_event[w]
    /\ CanBegin(w)
    /\ lock' = w
    /\ worker' = Set(w, [worker[w] EXCEPT
                            !.pc = "mark_update",
                            !.m_status = StatusFor(worker[w].return_code[1]),
                            !.m_error = MessageFor(worker[w].return_code[1],
                                                   worker[w].error_message)])
    /\ child' = Forget(w)
    /\ UNCHANGED <<jobs, now, sched, shutdown_event, history, Others>>

\* The same call, but BEGIN IMMEDIATE raises OperationalError: the failure
\* is logged and mark_job_done returns; the row is not written.
MarkBusy(w) ==
    /\ worker[w].pc = "record"
    /\ ~shutdown_event[w]
    /\ Busy(w)
    /\ worker' = Set(w, Counted(w, StatusFor(worker[w].return_code[1])))
    /\ child' = Forget(w)
    /\ UNCHANGED <<jobs, lock, now, sched, shutdown_event, history, Others>>

\* (A finalize that also clears started_at.)
WriteOutcomeClearingStart(rows, job_id, status, elapsed, msg) ==
    [rows EXCEPT ![job_id].status = status,
                 ![job_id].elapsed_time = elapsed,
                 ![job_id].finished_at = Stamp,
                 ![job_id].error_message = msg,
                 ![job_id].started_at = Null]

\* (A finalize that adds the run's time to the time the row holds.)
WriteOutcomeAddingTime(rows, job_id, status, elapsed, msg) ==
    [rows EXCEPT ![job_id].status = status,
                 ![job_id].elapsed_time = IF @ = Null THEN elapsed ELSE @ + elapsed,
                 ![job_id].finished_at = Stamp,
                 ![job_id].error_message = msg]

\* UPDATE jobs SET status = ?, elapsed_time = ?, finished_at = datetime('now'),
\* error_message = ? WHERE job_id = ?
WriteOutcome(rows, job_id, status, elapsed, msg) ==
    [rows EXCEPT ![job_id].status = status,
                 ![job_id].elapsed_time = elapsed,
                 ![job_id].finished_at = Stamp,
                 ![job_id].error_message = msg]

\* The UPDATE and conn.commit().
MarkCommit(w) ==
    /\ worker[w].pc = "mark_update"
    /\ LET j == worker[w].job
           st == worker[w].m_status
       IN  /\ jobs' = WriteOutcome(jobs, j, st, worker[w].elapsed_time,
                                   worker[w].m_error)
           /\ claims_since_pending' =
                 [claims_since_pending EXCEPT ![j] = IF st = "pending" THEN 0 ELSE @]
           /\ terminal_writes' =
                 [terminal_writes EXCEPT
                     ![j] = IF st \in {"done", "error"} THEN Min2(@ + 1, 2) ELSE @]
           /\ recorded' = [recorded EXCEPT
                 ![w] = <<st, worker[w].elapsed_time, worker[w].m_error>>]
    /\ lock' = Release(w)
    /\ worker' = Set(w, Counted(w, worker[w].m_status))
    /\ UNCHANGED <<now, sched, child, shutdown_event, Others>>

\* ------------------------------------------------------------- environment
\* The child ends by itself with exit status code.  Only run_job's loop
\* reads process.poll(), so the exit is taken while the worker is there.
ChildExit(w, code) ==
    /\ worker[w].pc = "poll"
    /\ child[w] = <<"running">>
    /\ child' = [child EXCEPT ![w] = <<"exited", code>>]
    /\ UNCHANGED <<jobs, lock, now, sched, worker, shutdown_event, history, Others>>

\* signal_handler: SIGINT or SIGTERM reaches the worker's process.
Signal(w) ==
    /\ worker[w].pc \notin {"idle", "exited", "dead"}
    /\ ~shutdown_event[w]
    /\ shutdown_event' = [shutdown_event EXCEPT ![w] = TRUE]
    /\ UNCHANGED <<jobs, lock, now, sched, worker, child, history, Others>>

\* The worker's process is killed while its child runs, between the claim
\* and the recording of the outcome.
Crash(w) ==
    /\ worker[w].pc = "poll"
    /\ worker' = Set(w, [worker[w] EXCEPT !.pc = "dead"])
    /\ UNCHANGED <<jobs, lock, now, sched, child, shutdown_event, history, Others>>

\* Time passes.
Tick ==
    /\ now < MaxTicks * Quantum
    /\ now' = now + Quantum
    /\ UNCHANGED <<jobs, lock, sched, worker, child, shutdown_event, history, Others>>

\* ------------------------------------------------- build_command (lines 199-228)
\* The columns of the jobs table in the order create_schema declares them,
\* the user columns last; dict(row) of "SELECT * FROM jobs" iterates in that
\* order.
SchemaColumns ==
    <<"JOBSCHEDULER_JOB_ID", "JOBSCHEDULER_STATUS", "JOBSCHEDULER_PRIORITY",
      "JOBSCHEDULER_ESTIMATE_TIME", "JOBSCHEDULER_ELAPSED_TIME",
      "JOBSCHEDULER_CREATED_AT", "JOBSCHEDULER_STARTED_AT",
      "JOBSCHEDULER_FINISHED_AT", "JOBSCHEDULER_ERROR_MESSAGE",
      "JOBSCHEDULER_DEPENDS_ON", "JOBSCHEDULER_HEARTBEAT",
      "JOBSCHEDULER_WORKER_ID">>
UserColumns == SubSeq(<<"paramA", "paramB", "paramC">>, 1, NumUserColumns)
TableColumns == SchemaColumns \o UserColumns

\* JobDatabase.RESERVED_COLUMNS: the column names beginning with JOBSCHEDULER_.
RESERVED_COLUMNS == {SchemaColumns[i] : i \in DOMAIN SchemaColumns}

\* The set named reserved in build_command.
reserved ==
    {"JOBSCHEDULER_JOB_ID", "JOBSCHEDULER_STATUS", "JOBSCHEDULER_PRIORITY",
     "JOBSCHEDULER_ESTIMATE_TIME", "JOBSCHEDULER_ELAPSED_TIME",
     "JOBSCHEDULER_CREATED_AT", "JOBSCHEDULER_STARTED_AT",
     "JOBSCHEDULER_FINISHED_AT", "JOBSCHEDULER_ERROR_MESSAGE"}

\* A cell is SQL NULL (Python None) or a value; text values are "" (an empty
\* CSV cell, or the DEPENDS_ON that import_csv writes for a job with no
\* dependency) and "x".
NullCell == <<>>
Cell(v) == <<v>>

\* argv elements: a token of self.command, f"--{key}", and str(value) of
\* the cell read under key.
Token(s) == <<"token", s>>
Flag(key) == <<"flag", key>>
Str(key, cell) == <<"value", key, cell[1]>>

\* cmd[0].endswith('.sh') and cmd[0].startswith('bash'), for the command
\* words of the model.
EndsWithSh(s) == s \in {"run.sh", "bash_job.sh"}
StartsWithBash(s) == s \in {"bash", "bash_job.sh"}

\* cmd = self.command.split(), with 'bash' put in front of a lone .sh file.
CommandTokens(words) ==
    LET toks == [i \in DOMAIN words |-> Token(words[i])]
    IN  IF Len(words) = 1 /\ EndsWithSh(words[1]) /\ ~StartsWithBash(words[1])
        THEN <<Token("bash")>> \o toks
        ELSE toks

\* cmd.append(f"--{key}"); cmd.append(str(value))
NamedPair(key, cell) == <<Flag(key), Str(key, cell)>>

\* What one (key, value) of job.items() appends.
Appended(key, cell, named) ==
    IF key \notin reserved /\ cell # NullCell
    THEN IF named THEN NamedPair(key, cell) ELSE <<Str(key, cell)>>
    ELSE <<>>

\* The two "for key, value in job.items()" loops, from column i on.
RECURSIVE AppendFrom(_, _, _)
AppendFrom(row, i, named) ==
    IF i > Len(TableColumns) THEN <<>>
    ELSE Appended(TableColumns[i], row[i], named) \o AppendFrom(row, i + 1, named)

build_command(words, row, named) == CommandTokens(words) \o AppendFrom(row, 1, named)

\* run_job's call cmd = self.build_command(job).
BuildCommand ==
    /\ cmd = <<>>
    /\ command # <<>>
    /\ cmd' = build_command(command, job, named_args)
    /\ UNCHANGED <<jobs, lock, now, sched, worker, child, shutdown_event, history,
                   job_dependencies, config, sched_of, command, named_args, job>>

\* ------------------------------------------------------------ specification
\* Steps in which no BEGIN IMMEDIATE times out.
Uncontended ==
    \/ \E s \in Schedulers : RecoverBegin(s)
    \/ \E s \in Schedulers : RecoverCommit(s)
    \/ \E s \in Schedulers : Spawn(s)
    \/ \E s \in Schedulers : Join(s)
    \/ \E w \in Workers : WorkerStart(w)
    \/ \E w \in Workers : LoopExit(w)
    \/ \E w \in Workers : ClaimBegin(w)
    \/ \E w \in Workers : ClaimSelect(w)
    \/ \E w \in Workers : ClaimCommit(w)
    \/ \E w \in Workers : RunStart(w)
    \/ \E w \in Workers : RunSpawnException(w)
    \/ \E w \in Workers : Poll(w)
    \/ \E w \in Workers : AfterLoop(w)
    \/ \E w \in Workers : RecordSkip(w)
    \/ \E w \in Workers : MarkBegin(w)
    \/ \E w \in Workers : MarkCommit(w)
    \/ \E w \in Workers, code \in ExitCodes : ChildExit(w, code)
    \/ \E w \in Workers : Signal(w)
    \/ \E w \in Workers : Crash(w)

\* Steps in which the write lock stays with another connection for the
\* whole busy_timeout.
Contended ==
    \/ \E s \in Schedulers : RecoverBusy(s)
    \/ \E w \in Workers : ClaimBusy(w)
    \/ \E w \in Workers : MarkBusy(w)

\* The kwargs defaults scaled to the model's clock: a budget that the clock
\* cannot use up, no margin, speed factor 1, smart scheduling on.
DefaultConfig ==
    [max_runtime |-> (MaxTicks + 1) * Quantum, margin_time |-> 0,
     speed_factor |-> 1, smart_scheduling |-> TRUE]

\* Layouts: every worker is started by some scheduler, worker 1 by
\* scheduler 1: one scheduler with parallel = NumWorkers, or several
\* scheduler processes sharing the store.
Layouts == {f \in [Workers -> Schedulers] : f[1] = 1}

\* Spec: a batch of jobs with equal priorities and no estimates, the default
\* kwargs, any layout; the clock stands still.
Init == InitWith({0}, {0}, {{}}, {DefaultConfig}, Layouts)

Next == Uncontended \/ Contended

Spec == Init /\ [][Next]_vars

\* SpecTimed: one scheduler with parallel = 1; time passes; the batch and
\* the kwargs vary (each kwarg away from its default in turn).
SoloLayouts == {[w \in Workers |-> IF w = 1 THEN 1 ELSE 0]}

Configs ==
    {DefaultConfig}
    \cup {[DefaultConfig EXCEPT !.max_runtime = m] : m \in {0, Quantum, 2 * Quantum}}
    \cup {[DefaultConfig EXCEPT !.max_runtime = 2 * Quantum, !.margin_time = m] :
             m \in {Quantum, 2 * Quantum}}
    \cup {[DefaultConfig EXCEPT !.max_runtime = 2 * Quantum, !.speed_factor = 2]}
    \cup {[DefaultConfig EXCEPT !.max_runtime = 2 * Quantum, !.smart_scheduling = FALSE]}

InitTimed ==
    InitWith(0..MaxPriority, 0..MaxEstimate, {{}}, Configs, SoloLayouts)

NextTimed == Uncontended \/ Tick

SpecTimed == InitTimed /\ [][NextTimed]_vars

\* SpecDeps: one scheduler with parallel = 1 on batches with a dependency.
InitDeps ==
    InitWith(0..MaxPriority, {0}, DepChoices, {DefaultConfig}, SoloLayouts)

SpecDeps == InitDeps /\ [][Uncontended]_vars

\* SpecDrain: one scheduler with parallel = NumWorkers, every child exits 0,
\* no signal, no crash, a budget that does not run out (so the loop is left
\* only by "job is None"); BEGIN IMMEDIATE may time out.
PoolLayouts == {[w \in Workers |-> 1]}

InitDrain == InitWith({0}, {0}, {{}}, {DefaultConfig}, PoolLayouts)

NextDrain ==
    \/ \E s \in Schedulers : RecoverBegin(s)
    \/ \E s \in Schedulers : RecoverCommit(s)
    \/ \E s \in Schedulers : Spawn(s)
    \/ \E s \in Schedulers : Join(s)
    \/ \E w \in Workers : WorkerStart(w)
    \/ \E w \in Workers : ClaimBegin(w)
    \/ \E w \in Workers : ClaimBusy(w)
    \/ \E w \in Workers : ClaimSelect(w)
    \/ \E w \in Workers : ClaimCommit(w)
    \/ \E w \in Workers : RunStart(w)
    \/ \E w \in Workers : Poll(w)
    \/ \E w \in Workers : AfterLoop(w)
    \/ \E w \in Workers : MarkBegin(w)
    \/ \E w \in Workers : MarkBusy(w)
    \/ \E w \in Workers : MarkCommit(w)
    \/ \E w \in Workers : ChildExit(w, 0)

SpecDrain == InitDrain /\ [][NextDrain]_vars

\* SpecJoin: one scheduler with parallel = 1 or parallel = NumWorkers; every
\* child exits 0, signals arrive, workers of a pool may be killed, BEGIN
\* IMMEDIATE may time out.  A scheduler whose p.join() calls can return
\* does return.
InitJoin == InitWith({0}, {0}, {{}}, {DefaultConfig}, PoolLayouts \cup SoloLayouts)

NextJoin ==
    \/ NextDrain
    \/ \E w \in Workers : LoopExit(w)
    \/ \E w \in Workers : RecordSkip(w)
    \/ \E w \in Workers : Signal(w)
    \/ \E w \in Workers : parallel(sched_of[w]) > 1 /\ Crash(w)

SpecJoin ==
    InitJoin /\ [][NextJoin]_vars /\ \A s \in Schedulers : WF_vars(Join(s))

\* SpecBatch: SpecJoin's steps for one scheduler with parallel = NumWorkers
\* on a batch of any size 0 .. NumJobs: import_csv inserted a row for the job
\* ids of Batch only, and the table holds no row for the others.  No step
\* of it moves a row back to pending: every child exits 0, the budget does
\* not run out, and no second scheduler recovers rows.
NoRow == [NewRow(0, 0) EXCEPT !.status = "absent"]

Batch == {j \in Jobs : jobs[j].status # "absent"}

InitBatch ==
    /\ jobs \in {[j \in Jobs |-> IF j \in B THEN NewRow(0, 0) ELSE NoRow] :
                    B \in SUBSET Jobs}
    /\ job_dependencies = {}
    /\ config = DefaultConfig
    /\ sched_of \in PoolLayouts
    /\ lock = 0
    /\ now = 0
    /\ sched = [s \in Schedulers |->
                  IF \E w \in Workers : sched_of[w] = s THEN "start" ELSE "absent"]
    /\ worker = [w \in Workers |-> NewWorker]
    /\ child = [w \in Workers |-> <<"none">>]
    /\ shutdown_event = [w \in Workers |-> FALSE]
    /\ claims_since_pending = [j \in Jobs |-> 0]
    /\ terminal_writes = [j \in Jobs |-> 0]
    /\ recorded = [w \in Workers |-> <<>>]
    /\ command = <<>>
    /\ named_args = FALSE
    /\ job = <<>>
    /\ cmd = <<>>

SpecBatch == InitBatch /\ [][NextJoin]_vars

\* SpecCall: get_pending_job as a function of its argument.  Each of the
\* JobScheduler objects calls get_pending_job(available_time) once, directly,
\* with a negative, a zero or a positive argument, smart scheduling on or
\* off, on a store of pending rows; the calls wait for the write lock.
CallTimes == {0 - Quantum, 0, Quantum}

CallConfigs == {DefaultConfig, [DefaultConfig EXCEPT !.smart_scheduling = FALSE]}

\* get_pending_job(available_time) is entered and BEGIN IMMEDIATE gets the
\* write lock.
GetPendingJob(w, available_time) ==
    /\ worker[w].pc = "idle"
    /\ CanBegin(w)
    /\ lock' = w
    /\ worker' = Set(w, [worker[w] EXCEPT !.pc = "claim_select",
                                          !.available_time = available_time])
    /\ UNCHANGED <<jobs, now, sched, child, shutdown_event, history, Others>>

InitCall ==
    InitWith(0..MaxPriority, 0..MaxEstimate, {{}}, CallConfigs, PoolLayouts)

NextCall ==
    \/ \E w \in Workers, t \in CallTimes : GetPendingJob(w, t)
    \/ \E w \in Workers : ClaimSelect(w)
    \/ \E w \in Workers : ClaimCommit(w)

SpecCall == InitCall /\ [][NextCall]_vars

\* SpecLock: SpecDrain's steps, and the UPDATE or the commit of a claim may
\* raise the lock error as well.
NextLock ==
    \/ NextDrain
    \/ \E w \in Workers : ClaimRollback(w)

SpecLock == InitDrain /\ [][NextLock]_vars

\* ------------------------------------- ProgressViewer.get_stats (lines 29-95)
\* The rows of the first query: pending jobs with no dependency pair whose
\* target is missing (LEFT JOIN gives NULL) or not done.
PendingReady ==
    {j \in Jobs :
        /\ jobs[j].status = "pending"
        /\ ~\E d \in job_dependencies :
               d[1] = j /\ (d[2] \notin Jobs \/ jobs[d[2]].status # "done")}

\* The rows of the second query: pending jobs with a dependency pair whose
\* target exists (JOIN) and is running or pending.
PendingWaiting ==
    {j \in Jobs :
        /\ jobs[j].status = "pending"
        /\ \E d \in job_dependencies :
               d[1] = j /\ d[2] \in Jobs /\ jobs[d[2]].status \in {"running", "pending"}}

\* The rows of the third query: pending jobs with a dependency pair whose
\* target is missing or in error.
PendingBlocked ==
    {j \in Jobs :
        /\ jobs[j].status = "pending"
        /\ \E d \in job_dependencies :
               d[1] = j /\ (d[2] \notin Jobs \/ jobs[d[2]].status = "error")}

\* The counts get_stats returns when the job_dependencies table exists.
get_stats ==
    [pending |-> Cardinality({j \in Jobs : jobs[j].status = "pending"}),
     total |-> Cardinality(Jobs),
     pending_ready |-> Cardinality(PendingReady),
     pending_waiting |-> Cardinality(PendingWaiting),
     pending_blocked |-> Cardinality(PendingBlocked)]

\* SpecStats: one scheduler with parallel = 1 on batches in which the jobs
\* list up to two dependencies in all (a DEPENDS_ON cell is a list of ids);
\* get_stats reads the store at any moment of the run.
StatsDeps ==
    {D \in SUBSET (Jobs \X (1..(NumJobs + 1))) : Cardinality(D) <= 2}

InitStats == InitWith({0}, {0}, StatsDeps, {DefaultConfig}, SoloLayouts)

SpecStats == InitStats /\ [][Uncontended]_vars

\* SpecRestart: scheduler 1 runs with parallel = 1 and its worker may be
\* killed while its child runs; scheduler 2 is started after scheduler 1 has
\* ended, and in its run every child exits 0, no signal arrives and the
\* budget does not run out.  Processes that can take a step do so.
RestartLayouts == {[w \in Workers |-> IF w = 1 THEN 1 ELSE 2]}

InitRestart == InitWith(0..MaxPriority, {0}, {{}}, {DefaultConfig}, RestartLayouts)

FirstRunOver == sched[1] = "finished"

NextRestart ==
    \/ RecoverBegin(1)
    \/ \E s \in Schedulers \ {1} : FirstRunOver /\ RecoverBegin(s)
    \/ \E s \in Schedulers : RecoverCommit(s)
    \/ \E s \in Schedulers : Spawn(s)
    \/ \E s \in Schedulers : Join(s)
    \/ \E w \in Workers : WorkerStart(w)
    \/ \E w \in Workers : ClaimBegin(w)
    \/ \E w \in Workers : ClaimSelect(w)
    \/ \E w \in Workers : ClaimCommit(w)
    \/ \E w \in Workers : RunStart(w)
    \/ \E w \in Workers : Poll(w)
    \/ \E w \in Workers : AfterLoop(w)
    \/ \E w \in Workers : MarkBegin(w)
    \/ \E w \in Workers : MarkCommit(w)
    \/ \E code \in ExitCodes : ChildExit(1, code)
    \/ \E w \in Workers \ {1} : ChildExit(w, 0)
    \/ Crash(1)

SpecRestart == InitRestart /\ [][NextRestart]_vars /\ WF_vars(NextRestart)

\* SpecCommand: build_command on the dict of a claimed row.  The cells that
\* import_csv and the claim always fill hold a value; the lifecycle cells,
\* DEPENDS_ON, HEARTBEAT, WORKER_ID and the user cells are NULL or hold text.
AlwaysFilled ==
    {"JOBSCHEDULER_JOB_ID", "JOBSCHEDULER_STATUS", "JOBSCHEDULER_PRIORITY",
     "JOBSCHEDULER_ESTIMATE_TIME", "JOBSCHEDULER_CREATED_AT"}

Nullable ==
    (RESERVED_COLUMNS \ AlwaysFilled) \cup {UserColumns[i] : i \in DOMAIN UserColumns}

MaybeEmpty ==
    {"JOBSCHEDULER_DEPENDS_ON"} \cup {UserColumns[i] : i \in DOMAIN UserColumns}

JobDicts ==
    {[i \in DOMAIN TableColumns |->
         IF TableColumns[i] \in N THEN NullCell
         ELSE IF TableColumns[i] \in E THEN Cell("")
         ELSE Cell("x")] : N \in SUBSET Nullable, E \in SUBSET MaybeEmpty}

Commands == {<<"run.sh">>, <<"bash_job.sh">>, <<"python", "job.py">>}

InitCommand ==
    /\ InitStore({0}, {0}, {{}}, {DefaultConfig}, SoloLayouts)
    /\ command \in Commands
    /\ named_args \in BOOLEAN
    /\ job \in JobDicts
    /\ cmd = <<>>

SpecCommand == InitCommand /\ [][BuildCommand]_vars

\* ------------------------------------------------------------------ claims
\* A worker holds job j as its claimed job: from the commit of its claim to
\* the return of its mark_job_done call.
Holding(w) == worker[w].pc \in {"run_start", "poll", "after_loop", "record", "mark_update"}

C2_DependencyRespect ==
    [][\A j \in Jobs :
          (jobs[j].status = "pending" /\ jobs'[j].status = "running")
             => \A p \in job_dependencies :
                   p[1] = j => (p[2] \in Jobs /\ jobs[p[2]].status = "done")]_vars

\* C3: the row a claim has selected is eligible, has the highest priority
\* among the eligible rows, and the smallest job id among those of that
\* priority.
C3_PriorityMonotone ==
    \A w \in Workers :
        worker[w].pc = "claim_update" =>
            LET E == {j \in Jobs : Selectable(j, worker[w].available_time)}
                r == worker[w].row
            IN  /\ r \in E
                /\ \A k \in E : jobs[k].priority <= jobs[r].priority
                /\ \A k \in E : jobs[k].priority = jobs[r].priority => r <= k

\* A claim has selected job 2 over the eligible job 1 of lower priority.
C3_Witness ==
    \E w \in Workers :
        /\ worker[w].pc = "claim_update"
        /\ worker[w].row = 2
        /\ Selectable(1, worker[w].available_time)
        /\ jobs[1].priority < jobs[2].priority

\* C4: no double execution.  For every job, at most one run ever writes a
\* terminal state (done or error) for it, whatever the interleaving of
\* claims, outcome recordings and recoveries of the schedulers sharing the
\* store.
C4_NoDoubleExecution == \A j \in Jobs : terminal_writes[j] <= 1

\* C5: every change of a job's status is pending -> running,
\* running -> done, running -> error or running -> pending.
C5_Transitions ==
    [][\A j \in Jobs :
          jobs'[j].status # jobs[j].status =>
             \/ jobs[j].status = "pending" /\ jobs'[j].status = "running"
             \/ jobs[j].status = "running"
                   /\ jobs'[j].status \in {"done", "error", "pending"}]_vars

\* C6: no lost jobs.  Once the scheduler run that started every worker has
\* ended, all its workers having returned and none having received a
\* shutdown signal, no row is in status running.
C6_NoLostJobs ==
    (/\ WorkersOf(1) = Workers
     /\ sched[1] = "finished"
     /\ \A w \in Workers : worker[w].pc = "exited" /\ ~shutdown_event[w])
       => \A j \in Jobs : jobs[j].status # "running"

\* The sum of jobs_completed over the workers W.
RECURSIVE TotalCompleted(_)
TotalCompleted(W) ==
    IF W = {} THEN 0
    ELSE LET w == CHOOSE v \in W : TRUE
         IN  worker[w].jobs_completed + TotalCompleted(W \ {w})

\* C7: drain to completion.  With independent jobs whose child always exits
\* 0, no signal and budget to spare, the finished run has every job in done,
\* written done exactly once, and the workers' completions sum to the
\* number of jobs.
C7_DrainToCompletion ==
    sched[1] = "finished" =>
       /\ \A j \in Jobs : jobs[j].status = "done" /\ terminal_writes[j] = 1
       /\ TotalCompleted(Workers) = NumJobs

\* C8: a worker whose run was interrupted by the shutdown flag has, when it
\* is back at the loop head and about to stop, terminated the child and
\* returned the job's row to pending with "Interrupted by shutdown signal".
C8_InterruptedRequeued ==
    \A w \in Workers :
       (worker[w].pc = "loop" /\ worker[w].error_message = MsgInterrupted)
          => /\ child[w] # <<"running">>
             /\ jobs[worker[w].job].status = "pending"
             /\ jobs[worker[w].job].error_message = MsgInterrupted

C10_OutcomeByExitCode ==
    \A w \in Workers :
       (worker[w].pc = "loop" /\ worker[w].return_code # <<>>)
          => LET rc == worker[w].return_code[1]
             IN  /\ recorded[w] # <<>>
                 /\ recorded[w][1] = (IF rc = 0 THEN "done"
                                      ELSE IF rc = 0 - 2 THEN "pending"
                                      ELSE "error")
                 /\ recorded[w][2] = worker[w].elapsed_time
                 /\ rc # 0 => recorded[w][3] = worker[w].error_message

\* C11: the step that commits recover_stuck_jobs leaves no row running:
\* every row that was running is pending with started_at NULL, and every
\* row that was pending, done or error is unchanged.
C11_RecoveryResets ==
    [][\A s \in Schedulers :
          (sched[s] = "recover" /\ sched'[s] = "spawn") =>
             \A j \in Jobs :
                /\ jobs'[j].status # "running"
                /\ jobs[j].status = "running" =>
                      (jobs'[j].status = "pending" /\ jobs'[j].started_at = Null)
                /\ jobs[j].status # "running" => jobs'[j] = jobs[j]]_vars

\* Scheduler 2's recovery has just ended and a row that a worker of
\* scheduler 1 claimed, and still works on, is pending with started_at NULL.
C11_Witness ==
    /\ sched[2] = "spawn"
    /\ \E w \in Workers :
          /\ Holding(w)
          /\ jobs[worker[w].job].status = "pending"
          /\ jobs[worker[w].job].started_at = Null
    /\ \E j \in Jobs : jobs[j].status \in {"done", "error"}

\* The store after n runs of recover_stuck_jobs in sequence, no other
\* process writing in between.
RECURSIVE RecoverTimes(_, _)
RecoverTimes(rows, n) ==
    IF n = 0 THEN rows ELSE ResetRunning(RecoverTimes(rows, n - 1))

\* C12: recovery is idempotent: on every store the program can reach,
\* n >= 1 recoveries in sequence give the store that one recovery gives.
C12_RecoveryIdempotent ==
    \A n \in 1..MaxRuns : RecoverTimes(jobs, n) = RecoverTimes(jobs, 1)

\* A recovery is under way on a store that it changes: one row is running,
\* another one is done or error.
C12_Witness ==
    /\ \E s \in Schedulers : sched[s] = "recover"
    /\ RecoverTimes(jobs, 1) # jobs
    /\ RecoverTimes(jobs, MaxRuns) = RecoverTimes(jobs, 1)
    /\ \E j \in Jobs : jobs[j].status \in {"done", "error"}

\* C13: in each scheduler process recover_stuck_jobs is called once, and it
\* has returned before any worker of that scheduler exists, with parallel = 1
\* and with parallel > 1: while the scheduler is at or in recovery all its
\* workers are idle, a worker that has left idle belongs to a scheduler past
\* recovery, and the scheduler never goes back to recovery.
C13_RecoveryOnceFirst ==
    /\ [](\A s \in Schedulers :
             sched[s] \in {"start", "recover", "spawn"}
                => \A w \in WorkersOf(s) : worker[w].pc = "idle")
    /\ [](\A w \in Workers :
             worker[w].pc # "idle"
                => (sched_of[w] \in Schedulers
                      /\ sched[sched_of[w]] \in {"join", "finished"}))
    /\ [][\A s \in Schedulers :
             /\ sched'[s] = "start" => sched[s] = "start"
             /\ sched'[s] = "recover" => sched[s] \in {"start", "recover"}
             /\ sched'[s] = "spawn" => sched[s] \in {"start", "recover", "spawn"}
             /\ sched'[s] = "join" => sched[s] \in {"spawn", "join"}]_vars

\* After the recovery of a scheduler with parallel = 2, one of its workers
\* is in a claim transaction and the other one runs a job.
C13_Witness ==
    /\ WorkersOf(1) = Workers
    /\ sched[1] = "join"
    /\ worker[1].pc = "claim_update"
    /\ worker[2].pc = "poll"

\* C14: crash recovery.  When the worker of the first run has died with its
\* claimed row in running, the row is pending once the next scheduler's
\* recovery has returned and before its workers exist, and the job is
\* eventually done.
C14_CrashRecovery ==
    /\ [](\A s \in Schedulers \ {1} :
             (worker[1].pc = "dead" /\ sched[s] = "spawn")
                => jobs[worker[1].job].status = "pending")
    /\ (worker[1].pc = "dead")
          ~> (worker[1].job \in Jobs /\ jobs[worker[1].job].status = "done")

\* The first run's worker died on a job, the second run has ended, and the
\* job is done.
C14_Witness ==
    /\ worker[1].pc = "dead"
    /\ sched[2] = "finished"
    /\ jobs[worker[1].job].status = "done"
    /\ terminal_writes[worker[1].job] = 1

\* C15: a stale worker cannot commit its outcome.  When the row a worker
\* claimed is no longer running (recovery has reset it, or someone else has
\* finalized it since), the worker's mark_job_done commit leaves the row as
\* it was.
C15_StaleCannotCommit ==
    [][\A w \in Workers :
          (/\ worker[w].pc = "mark_update"
           /\ worker'[w].pc = "loop"
           /\ jobs[worker[w].job].status # "running")
             => jobs'[worker[w].job] = jobs[worker[w].job]]_vars

\* A pending job whose estimate, in seconds and divided by speed_factor, is
\* at most a.
Fits(j, a) ==
    /\ jobs[j].status = "pending"
    /\ jobs[j].estimate_time * SecondsPerHour <= a * config.speed_factor

\* C16: the deadline filter.  With smart scheduling on (and available_time
\* > 0) the selected row fits the available time and has the highest
\* priority among the pending rows that fit, and the claim returns no job
\* only when no pending row fits (so a pending row with estimate 0 is never
\* passed over); with smart scheduling off the selected row has the highest
\* priority among all pending rows, and the claim returns no job only when
\* no row is pending.
C16_DeadlineFilter ==
    /\ [](\A w \in Workers :
             worker[w].pc = "claim_update" =>
                LET r == worker[w].row
                    a == worker[w].available_time
                IN  IF config.smart_scheduling /\ a > 0
                    THEN /\ Fits(r, a)
                         /\ \A k \in Jobs :
                               Fits(k, a) => jobs[k].priority <= jobs[r].priority
                    ELSE /\ jobs[r].status = "pending"
                         /\ \A k \in Jobs :
                               jobs[k].status = "pending"
                                  => jobs[k].priority <= jobs[r].priority)
    /\ [][\A w \in Workers :
             (worker[w].pc = "claim_select" /\ worker'[w].pc = "exited") =>
                LET a == worker[w].available_time
                IN  /\ \A k \in Jobs :
                          ~(jobs[k].status = "pending" /\ jobs[k].estimate_time = 0)
                    /\ IF config.smart_scheduling /\ a > 0
                       THEN \A k \in Jobs : ~Fits(k, a)
                       ELSE \A k \in Jobs : jobs[k].status # "pending"]_vars

\* With smart scheduling on, a pending job of higher priority that does not
\* fit is passed over for the selected one.
C16_Witness ==
    \E w \in Workers :
       /\ worker[w].pc = "claim_update"
       /\ config.smart_scheduling
       /\ \E k \in Jobs :
             /\ jobs[k].status = "pending"
             /\ jobs[k].priority > jobs[worker[w].row].priority
             /\ ~Fits(k, worker[w].available_time)

\* C17: no claim on an exhausted budget.  A worker goes from the loop head
\* into a claim only with elapsed < max_runtime and
\* max_runtime - elapsed - margin_time > 0; with max_runtime = 0 or
\* margin_time >= max_runtime no worker is ever in a claim and the rows stay
\* as imported.
C17_NoClaimWithoutBudget ==
    /\ [][\A w \in Workers :
             (worker[w].pc = "loop" /\ worker'[w].pc \in {"claim_select", "claim_update"})
                => /\ now - worker[w].start_time < config.max_runtime
                   /\ config.max_runtime - (now - worker[w].start_time)
                         - config.margin_time > 0]_vars
    /\ []((config.max_runtime = 0 \/ config.margin_time >= config.max_runtime)
            => /\ \A w \in Workers :
                     worker[w].pc \in {"idle", "spawned", "loop", "exited"}
               /\ \A j \in Jobs :
                     jobs[j] = NewRow(jobs[j].priority, jobs[j].estimate_time))

\* A worker has returned without a claim because the margin eats the whole
\* budget.
C17_Witness ==
    /\ config.max_runtime > 0
    /\ config.margin_time >= config.max_runtime
    /\ \E w \in Workers : worker[w].pc = "exited" /\ worker[w].start_time # Null
    /\ \E s \in Schedulers : sched[s] = "finished"

\* C18: the argv that build_command returns has no element derived from a
\* column whose name begins with JOBSCHEDULER_, in both argument modes.
C18_NoReservedForwarded ==
    \A i \in DOMAIN cmd :
       cmd[i][1] \in {"flag", "value"} => cmd[i][2] \notin RESERVED_COLUMNS

\* The indices of the user columns whose cell is not NULL, and the k-th of
\* them in column order.
FilledUser(row) ==
    {i \in DOMAIN TableColumns :
        i > Len(SchemaColumns) /\ row[i] # NullCell}
NthFilled(row, k) ==
    CHOOSE i \in FilledUser(row) :
       Cardinality({n \in FilledUser(row) : n < i}) = k - 1

\* C19: the argv is the command tokens followed by, in column order, one
\* element (the value) per non-null user cell in positional mode and two
\* ("--<column>", then the value) in named mode; a NULL cell contributes
\* nothing.
C19_UserArgsInOrder ==
    cmd # <<>> =>
       LET head == (IF command \in {<<"run.sh">>} THEN 1 ELSE 0) + Len(command)
           n == Cardinality(FilledUser(job))
       IN  /\ Len(cmd) = head + (IF named_args THEN 2 * n ELSE n)
           /\ \A i \in 1..Len(command) :
                 cmd[head - Len(command) + i] = <<"token", command[i]>>
           /\ \A k \in 1..n :
                 LET c == NthFilled(job, k)
                 IN  IF named_args
                     THEN /\ cmd[head + 2 * k - 1] = <<"flag", TableColumns[c]>>
                          /\ cmd[head + 2 * k] = <<"value", TableColumns[c], job[c][1]>>
                     ELSE cmd[head + k] = <<"value", TableColumns[c], job[c][1]>>

\* C20: no claim after the shutdown flag is set.  No claim transaction of a
\* worker commits (its row going from pending to running) in a state where
\* the flag of that worker's process is set.
C20_NoClaimAfterShutdown ==
    [][\A w \in Workers :
          (worker[w].pc = "claim_update" /\ worker'[w].pc = "run_start")
             => ~shutdown_event[w]]_vars

\* C21: within a worker a finalization commits before the next claim.  When
\* a worker that has claimed a job before goes from the loop head into its
\* next claim, it has committed an outcome for the previous job, also when
\* mark_job_done met a lock error.
C21_FinalizeBeforeNextClaim ==
    [][\A w \in Workers :
          (/\ worker[w].pc = "loop"
           /\ worker'[w].pc = "claim_select"
           /\ worker[w].job # None)
             => (recorded[w] # <<>> /\ jobs[worker[w].job].status # "running")]_vars

\* C22: a lock conflict in a claim does not end the worker.  A worker at the
\* loop head whose flag is not set and whose budget is not exhausted does
\* not return while a pending job remains.
C22_LockConflictNotFatal ==
    [][\A w \in Workers :
          (worker[w].pc = "loop" /\ worker'[w].pc = "exited")
             => \/ shutdown_event[w]
                \/ now - worker[w].start_time >= config.max_runtime
                \/ config.max_runtime - (now - worker[w].start_time)
                      - config.margin_time <= 0
                \/ \A j \in Jobs : jobs[j].status # "pending"]_vars

\* C23: in every committed state of the store a running row has a
\* started_at, and a done or error row has a finished_at and an
\* elapsed_time.
C23_LifecycleColumns ==
    \A j \in Jobs :
       /\ jobs[j].status = "running" => jobs[j].started_at # Null
       /\ jobs[j].status \in {"done", "error"}
             => (jobs[j].finished_at # Null /\ jobs[j].elapsed_time # Null)

\* No transaction is open; one row is running after a recovery had reset
\* it, another one is done or error.
C23_Witness ==
    /\ lock = 0
    /\ \E s \in Schedulers \ {1} : sched[s] \in {"join", "finished"}
    /\ \E j \in Jobs : jobs[j].status = "running" /\ jobs[j].started_at # Null
    /\ \E j \in Jobs : jobs[j].status \in {"done", "error"}

\* end_time of run_job: the instant from which the supervisor terminates
\* the child (SIGTERM within a poll tick, SIGKILL 5 seconds later).
EndTime(w) == worker[w].run_start + worker[w].available_time

\* The end of the worker's budget as the loop head computed it for this
\* claim: start_time + max_runtime - margin_time.
BudgetEnd(w) == worker[w].start_time + config.max_runtime - config.margin_time

\* C24: deadline containment.  While a child runs, the instant from which
\* the supervisor terminates it is not later than the end of the worker's
\* remaining budget, so that the child outlives the budget by the
\* termination grace at most.
C24_DeadlineContainment ==
    \A w \in Workers :
       (worker[w].pc = "poll" /\ child[w] = <<"running">>)
          => EndTime(w) <= BudgetEnd(w)

\* The row r2 differs from r1 at most in the columns named in cols.
SameExcept(r1, r2, cols) ==
    \A f \in DOMAIN r1 \ cols : r2[f] = r1[f]

\* C25: frame of the store writes.  No step inserts or deletes a row or
\* changes the dependency table; a claim changes only status and started_at
\* of the selected row, a finalize only status, elapsed_time, finished_at
\* and error_message of the named row, a recovery only status and
\* started_at of rows that were running; so user columns, priority,
\* estimate_time and depends_on never change.
C25_Frame ==
    [][/\ DOMAIN jobs' = DOMAIN jobs
       /\ job_dependencies' = job_dependencies
       /\ \A j \in Jobs :
             jobs'[j] # jobs[j] =>
                /\ DOMAIN jobs'[j] = DOMAIN jobs[j]
                /\ SameExcept(jobs[j], jobs'[j],
                              {"status", "started_at", "finished_at",
                               "elapsed_time", "error_message"})
                /\ \/ \E w \in Workers :
                         /\ worker[w].pc = "claim_update" /\ worker'[w].pc = "run_start"
                         /\ worker[w].row = j
                         /\ SameExcept(jobs[j], jobs'[j], {"status", "started_at"})
                         /\ \A k \in Jobs \ {j} : jobs'[k] = jobs[k]
                   \/ \E w \in Workers :
                         /\ worker[w].pc = "mark_update" /\ worker'[w].pc = "loop"
                         /\ worker[w].job = j
                         /\ SameExcept(jobs[j], jobs'[j],
                                       {"status", "elapsed_time", "finished_at",
                                        "error_message"})
                         /\ \A k \in Jobs \ {j} : jobs'[k] = jobs[k]
                   \/ \E s \in Schedulers :
                         /\ sched[s] = "recover" /\ sched'[s] = "spawn"
                         /\ jobs[j].status = "running"
                         /\ SameExcept(jobs[j], jobs'[j], {"status", "started_at"})]_vars

\* A claim, a recovery that reset that claim, and a finalize have all
\* written: a row that a worker works on is pending again, another row is
\* done or error, and the rows still hold what was imported.
C25_Witness ==
    /\ \E w \in Workers :
          /\ Holding(w)
          /\ jobs[worker[w].job].status = "pending"
          /\ jobs[worker[w].job].started_at = Null
    /\ \E j \in Jobs : jobs[j].status \in {"done", "error"} /\ jobs[j].finished_at # Null
    /\ \A j \in Jobs :
          /\ jobs[j].user = NewRow(0, 0).user
          /\ jobs[j].depends_on = {}
          /\ jobs[j].priority = 0

\* C26: the scheduler and its workers.  A scheduler past the spawn has
\* started every one of its parallel workers and no other, their ids are
\* distinct and are 0 .. parallel - 1, it has returned only when every one
\* of them has stopped, and once they have all stopped it eventually
\* returns; with parallel = 1 and with parallel > 1.
C26_JoinAll ==
    /\ [](\A s \in Schedulers :
             /\ sched[s] \in {"join", "finished"}
                   => \A w \in WorkersOf(s) : worker[w].pc # "idle"
             /\ sched[s] = "finished"
                   => \A w \in WorkersOf(s) : worker[w].pc \in {"exited", "dead"}
             /\ \A w \in WorkersOf(s) : WorkerId(w) \in 0..(parallel(s) - 1)
             /\ \A w1, w2 \in WorkersOf(s) :
                   WorkerId(w1) = WorkerId(w2) => w1 = w2)
    /\ [](\A w \in Workers : sched_of[w] \notin Schedulers => worker[w].pc = "idle")
    /\ \A s \in Schedulers :
          (sched[s] = "join"
             /\ \A w \in WorkersOf(s) : worker[w].pc \in {"exited", "dead"})
          ~> (sched[s] = "finished")

\* A scheduler with parallel = 2 has returned after both workers, each
\* having completed a job, have returned.
C26_Witness ==
    /\ parallel(1) = 2
    /\ sched[1] = "finished"
    /\ \A w \in WorkersOf(1) : worker[w].pc = "exited" /\ worker[w].jobs_completed = 1

\* C27: a job with a dangling dependency (j, d) where no job d exists, or
\* with a self-dependency (j, j), is never claimed: its row stays pending in
\* every state of the run.
Blocked(j) ==
    \E p \in job_dependencies : p[1] = j /\ (p[2] \notin Jobs \/ p[2] = j)

C27_BlockedStaysPending ==
    \A j \in Jobs : Blocked(j) => jobs[j].status = "pending"

\* C28: with parallel = K workers and a batch of S < K jobs none of which is
\* ever moved back to pending, at least K - S of the workers never claim a
\* job (get_pending_job never returns them one), and each of them has
\* returned from its loop by the time the scheduler has joined its workers.
\* The first conjunct states the premise for the runs of SpecBatch: no step moves
\* a row back to pending.
Requeued ==
    \E j \in Jobs : jobs[j].status \in {"running", "done", "error"} /\ jobs'[j].status = "pending"

C28_IdleWorkersNeverClaim ==
    /\ [][~Requeued]_vars
    /\ \E W \in SUBSET Workers :
          [](/\ W \subseteq WorkersOf(1)
             /\ Cardinality(Batch) < parallel(1)
                   => Cardinality(W) >= parallel(1) - Cardinality(Batch)
             /\ \A w \in W :
                   /\ worker[w].job = None
                   /\ worker[w].pc \notin {"run_start", "poll", "record", "dead"}
                   /\ sched[1] = "finished" => worker[w].pc = "exited")

C28_Witness ==
    /\ parallel(1) = 2
    /\ Cardinality(Batch) = 1
    /\ sched[1] = "finished"
    /\ \E w \in Workers :
          /\ worker[w].pc = "exited"
          /\ worker[w].jobs_completed = 1
          /\ \A v \in Workers \ {w} :
                worker[v].pc = "exited" /\ worker[v].jobs_completed = 0

\* C29: a get_pending_job call whose available_time is <= 0 returns no job
\* and leaves the store unchanged, with smart scheduling on or off and
\* whatever rows are pending: every step of such a call leaves the jobs table
\* as it is and ends the call with None.
C29_NoBudgetNoClaim ==
    [][\A w \in Workers :
          (/\ worker[w].pc \in {"claim_select", "claim_update"}
           /\ worker[w].available_time <= 0
           /\ worker'[w] # worker[w])
             => /\ jobs' = jobs
                /\ worker'[w].pc = "exited"
                /\ worker'[w].job = None]_vars

\* C30: a claim transaction that fails with a store lock error (at BEGIN
\* IMMEDIATE, at the UPDATE or at commit) returns no job and leaves the
\* store as it was before the call: a get_pending_job call that ends with
\* None changes no row and hands the worker no job, and while a call is
\* between its BEGIN IMMEDIATE and its end no step but its own successful
\* commit changes the jobs table.
C30_FailedClaimChangesNothing ==
    [][\A w \in Workers :
          /\ (worker[w].pc \in {"loop", "claim_select", "claim_update"}
               /\ worker'[w].pc = "exited")
                => (jobs' = jobs /\ worker'[w].job = None /\ worker'[w].row = None)
          /\ (worker[w].pc \in {"claim_select", "claim_update"}
               /\ worker'[w].pc # "run_start")
                => jobs' = jobs]_vars

C30_Witness ==
    /\ sched[1] = "finished"
    /\ \A w \in Workers : worker[w].pc = "exited" /\ worker[w].jobs_completed = 0
    /\ \A j \in Jobs : jobs[j].status = "pending" /\ jobs[j].started_at = Null

\* C31: a worker stops for good the first time a claim returns no job: the
\* step that finds no row (or no lock) ends its loop, a worker that has
\* returned takes no further step, and on a batch with no row, or with no
\* row that can ever fit the budget, every worker has claimed nothing and
\* counts jobs_completed = 0 and jobs_failed = 0.
NeverEligible(j) ==
    \/ jobs[j].status = "absent"
    \/ /\ config.smart_scheduling
       /\ jobs[j].estimate_time * SecondsPerHour
             > (config.max_runtime - config.margin_time) * config.speed_factor

C31_StopOnEmpty ==
    /\ [][\A w \in Workers :
             /\ worker[w].pc = "exited" => worker'[w] = worker[w]
             /\ (/\ worker[w].pc = "claim_select"
                 /\ SelectRow(worker[w].available_time) = None
                 /\ worker'[w] # worker[w])
                   => (/\ worker'[w].pc = "exited"
                       /\ worker'[w].jobs_completed = worker[w].jobs_completed
                       /\ worker'[w].jobs_failed = worker[w].jobs_failed)
             /\ (worker[w].pc = "loop" /\ worker'[w] # worker[w])
                   => worker'[w].pc \in {"claim_select", "exited"}]_vars
    /\ []((\A j \in Jobs : NeverEligible(j))
            => \A w \in Workers :
                  /\ worker[w].pc \in {"idle", "spawned", "loop", "claim_select", "exited"}
                  /\ worker[w].job = None
                  /\ worker[w].jobs_completed = 0
                  /\ worker[w].jobs_failed = 0)

C31_Witness ==
    /\ Batch = {}
    /\ sched[1] = "finished"
    /\ \A w \in Workers :
          /\ worker[w].pc = "exited"
          /\ worker[w].start_time # Null
          /\ worker[w].jobs_completed = 0
          /\ worker[w].jobs_failed = 0

\* C32: mark_job_done is idempotent per (job_id, status): on every store the
\* program reaches, for every job_id, status, elapsed_time and error_message,
\* the second of two calls in a row with the same arguments leaves the
\* row's status, elapsed_time and error_message as the first call left them,
\* and neither call changes another row.
MarkStatuses == {"done", "pending", "error"}
MarkTimes == {0, Quantum}
MarkMessages == {NoMessage, MsgTimeout, MsgInterrupted, MsgExited(1), MsgException}

C32_MarkIdempotent ==
    \A j \in Jobs, st \in MarkStatuses, e \in MarkTimes, msg \in MarkMessages :
        LET once == WriteOutcome(jobs, j, st, e, msg)
            twice == WriteOutcome(once, j, st, e, msg)
        IN  /\ twice[j].status = once[j].status
            /\ twice[j].elapsed_time = once[j].elapsed_time
            /\ twice[j].error_message = once[j].error_message
            /\ once[j].status = st /\ once[j].elapsed_time = e /\ once[j].error_message = msg
            /\ \A k \in Jobs \ {j} : once[k] = jobs[k] /\ twice[k] = jobs[k]

C32_Witness ==
    \E j \in Jobs, w \in Workers :
        /\ recorded[w] = <<"error", 0, MsgExited(1)>>
        /\ jobs[j].status = "error"
        /\ jobs[j].error_message = MsgExited(1)
        /\ jobs[j].elapsed_time = 0
        /\ jobs = WriteOutcome(jobs, j, "error", 0, MsgExited(1))
        /\ \E k \in Jobs \ {j} : jobs[k].status = "pending"

\* C33: a worker's counters follow what it has recorded: jobs_completed
\* grows by one exactly in the step that commits 'done' for its claimed job,
\* jobs_failed by one exactly in the step that commits 'error', a commit of
\* 'pending' changes neither, and no counter changes in any other step, so
\* each claimed job is counted at most once in at most one counter.
C33_CountersMatchRecords ==
    [][\A w \in Workers :
          LET wrote(st) == recorded[w] = <<>> /\ recorded'[w] # <<>> /\ recorded'[w][1] = st
          IN  /\ worker'[w].jobs_completed =
                    worker[w].jobs_completed + (IF wrote("done") THEN 1 ELSE 0)
              /\ worker'[w].jobs_failed =
                    worker[w].jobs_failed + (IF wrote("error") THEN 1 ELSE 0)]_vars

\* C34: with no timeout and no shutdown, a child that exits by itself with
\* a non-zero status N makes run_job return N with "Process exited with
\* code N", and a Popen that raises makes it return -1 with "Exception: ...";
\* in both cases the worker, back at the loop head, has recorded the job as
\* error with that message.
C34_FailureRecordedAsError ==
    \A w \in Workers :
       (/\ worker[w].pc = "loop"
        /\ ~shutdown_event[w]
        /\ worker[w].return_code # <<>>
        /\ worker[w].error_message \in {MsgExited(N) : N \in ExitCodes} \cup {MsgException})
          => LET rc == worker[w].return_code[1]
                 msg == worker[w].error_message
             IN  /\ msg = MsgException => rc = RcException
                 /\ msg # MsgException => (rc # 0 /\ msg = MsgExited(rc))
                 /\ recorded[w] = <<"error", worker[w].elapsed_time, msg>>

\* C35: after a run of its own has ended in timeout, a worker makes no
\* further claim: back at the loop head its remaining budget max_runtime -
\* elapsed - margin_time is <= 0 (or elapsed >= max_runtime), and its next
\* step leaves the loop; the job it re-queued is pending for others.
C35_NoClaimAfterTimeout ==
    /\ [](\A w \in Workers :
            (worker[w].pc = "loop" /\ worker[w].error_message = MsgTimeout)
               => \/ Available(w) <= 0
                  \/ now - worker[w].start_time >= config.max_runtime)
    /\ [][\A w \in Workers :
             (/\ worker[w].pc = "loop"
              /\ worker[w].error_message = MsgTimeout
              /\ worker'[w] # worker[w])
                => worker'[w].pc = "exited"]_vars

C35_Witness ==
    \E w \in Workers :
       /\ worker[w].pc = "loop"
       /\ worker[w].error_message = MsgTimeout
       /\ worker[w].return_code = <<RcRetry>>
       /\ ~shutdown_event[w]
       /\ recorded[w] = <<"pending", worker[w].elapsed_time, MsgTimeout>>
       /\ jobs[worker[w].job].status = "pending"
       /\ config.margin_time > 0

\* C36: a worker puts a job back to pending only when run_job itself ended
\* the child, for timeout or for shutdown: every step in which a worker
\* commits 'pending' for its job carries one of run_job's two termination
\* messages, and a child that ended on its own, whatever its status, is
\* committed as done or error.
C36_RequeueOnlyWhenTerminated ==
    [][\A w \in Workers :
          (recorded[w] = <<>> /\ recorded'[w] # <<>> /\ recorded'[w][1] = "pending")
             => recorded'[w][3] \in {MsgTimeout, MsgInterrupted}]_vars

\* C37: done is absorbing: a row in status done keeps that status in every
\* step of every worker and scheduler process sharing the store, whether
\* a claim, a mark_job_done call or a recovery.
C37_DoneAbsorbing ==
    [][\A j \in Jobs : jobs[j].status = "done" => jobs'[j].status = "done"]_vars

\* C38: in a single scheduler run, the rows in status running are at most
\* as many as the workers that are between a successful claim and the end
\* of the recording of its outcome (a killed worker counted with them), and
\* every running row is the job of one of those workers: no row stays
\* running for a worker that has moved on or has returned.
Owning ==
    {w \in Workers :
        worker[w].pc \in {"run_start", "poll", "after_loop", "record", "mark_update", "dead"}}

C38_RunningRowsOwned ==
    LET running == {j \in Jobs : jobs[j].status = "running"}
    IN  /\ Cardinality(running) <= Cardinality(Owning)
        /\ \A j \in running : \E w \in Owning : worker[w].job = j

\* C39: a child that has exited by itself with status 0, before run_job
\* sent it any signal, gets its job recorded as done, also when the shutdown
\* flag is set after the exit: run_job then returns 0 with no message, the
\* worker calls mark_job_done with 'done', and that call's commit writes
\* done; the job is not reported as interrupted and its row is not left
\* running.  (A worker process that is killed records nothing.)
C39_ExitedZeroIsDone ==
    [][\A w \in Workers :
          /\ (child[w] = <<"exited", 0>> /\ worker'[w] # worker[w] /\ worker'[w].pc # "dead")
                => \/ /\ worker[w].pc = "poll"
                      /\ worker'[w].pc = "after_loop"
                      /\ worker'[w].return_code = <<>>
                   \/ /\ worker[w].pc = "after_loop"
                      /\ worker'[w].pc = "record"
                      /\ worker'[w].return_code = <<0>>
                      /\ worker'[w].error_message = NoMessage
                   \/ /\ worker[w].pc = "record"
                      /\ worker'[w].pc = "mark_update"
                      /\ worker'[w].m_status = "done"
          /\ (/\ worker[w].pc = "mark_update"
              /\ worker[w].m_status = "done"
              /\ worker'[w] # worker[w])
                => jobs'[worker[w].job].status = "done"]_vars

\* C40: in the counts of get_stats, pending_ready is the number of pending
\* jobs all of whose dependencies are done (a dangling one is not done), and
\* every pending job is in exactly one of the three sets counted, so that
\* pending_ready + pending_waiting + pending_blocked is the pending count.
C40_ReadinessPartition ==
    LET pending == {j \in Jobs : jobs[j].status = "pending"}
        DepsDone(j) == \A d \in job_dependencies :
                          d[1] = j => (d[2] \in Jobs /\ jobs[d[2]].status = "done")
    IN  /\ get_stats.pending_ready = Cardinality({j \in pending : DepsDone(j)})
        /\ \A j \in pending :
              /\ j \in PendingReady \cup PendingWaiting \cup PendingBlocked
              /\ ~(j \in PendingReady /\ j \in PendingWaiting)
              /\ ~(j \in PendingReady /\ j \in PendingBlocked)
              /\ ~(j \in PendingWaiting /\ j \in PendingBlocked)
        /\ get_stats.pending_ready + get_stats.pending_waiting + get_stats.pending_blocked
              = get_stats.pending

====
